---- MODULE Spec2Model ----
(***************************************************************************)
(* Ledger subsystem of the ERP: the LedgerEntry store, the LedgerService   *)
(* (entry creation, queries, recalculation) and the payment recording that *)
(* feeds it.  Amounts are integers (the code's Decimal with two places,    *)
(* counted in units); dates are small integers; created_at is the order of *)
(* insertion, which is the entry id.  All operations are issued for one    *)
(* company.                                                                *)
(***************************************************************************)
EXTENDS Integers, Sequences, FiniteSets, TLC

VARIABLES
    entries,    \* the committed LedgerEntry rows
    nextId,     \* the id (and created_at rank) the store assigns next
    lastOp,     \* the operation that completed last, with what it returned
    txn,        \* per process: the transaction in flight and its position
    held,       \* per process: the ids of the rows it holds FOR UPDATE
    observed,   \* history: <<entry id, id of the tail its balance was read from>>
    invoices,   \* the Invoice rows
    payments,   \* the Payment rows
    allocations \* the PaymentAllocation rows

vars == <<entries, nextId, lastOp, txn, held, observed, invoices, payments, allocations>>

ledgerVars == <<entries, nextId, lastOp>>
concVars == <<txn, held, observed>>
orchVars == <<invoices, payments, allocations>>

(***************************************************************************)
(* Bounds                                                                  *)
(***************************************************************************)
MaxEntries == 2
MaxConcEntries == 3
NProcs == 2
OverlapCap == 2

CustomerIds == {1}
SupplierIds == {1}
Dates == {1, 2}
Amounts == {1, 2}
AdjAmounts == {-1, 0, 1}
InvoiceRefs == {1, 2}
PaymentRefs == {1}
SupplierAmounts == {1, 2}
AdjPartyTypes == {"customer", "supplier"}
Procs == 1..NProcs
ConcAmounts == {1, 2}
ConcDates == {1}
ConcInvoiceRefs == {1}
MaxLockEntries == 2
MaxPayPayments == 2
MaxPayEntries == 3
SystemDays == {1, 2}
MaxInvoices == 1
MaxPayments == 1
MaxOrchEntries == 3
OrchCustomers == {1, 2}
InvDates == {1, 2}
Totals == {0, 1, 2}
PayAmounts == {1, 2}
PayDates == {2}
ManualAmounts == {1, 2}
Statuses == {"draft", "sent", "paid", "cancelled"}
MaxFifoInvoices == 2
MaxFifoPayments == 2
MaxFifoEntries == 4
FifoStatuses == {"draft", "sent"}
FifoTotals == {1, 2}

\* the requests explored by SpecOrch
OrchInputs ==
    [customers |-> OrchCustomers, dates |-> InvDates, statuses |-> Statuses,
     valid |-> BOOLEAN, totals |-> Totals, amounts |-> PayAmounts,
     maxInvoices |-> MaxInvoices, maxPayments |-> MaxPayments,
     maxEntries |-> MaxOrchEntries]

\* the requests explored by SpecFifo: invoices created as draft or sent with
\* valid line items, then payments
FifoInputs ==
    [customers |-> OrchCustomers, dates |-> InvDates, statuses |-> FifoStatuses,
     valid |-> {TRUE}, totals |-> FifoTotals, amounts |-> PayAmounts,
     maxInvoices |-> MaxFifoInvoices, maxPayments |-> MaxFifoPayments,
     maxEntries |-> MaxFifoEntries]

(***************************************************************************)
(* The LedgerEntry store                                                   *)
(***************************************************************************)
NoRef == [rtype |-> "none", rid |-> 0]

NoEntry == [id |-> 0]

PartyEntries(S, ptype, pid) == {e \in S : e.ptype = ptype /\ e.pid = pid}

OrderedByCreatedOnly(a, b) == a.id < b.id

\* order_by('transaction_date', 'created_at'): a comes before b
OrderedBefore(a, b) ==
    \/ a.date < b.date
    \/ a.date = b.date /\ a.id < b.id

\* the entries of S as a sequence in (transaction_date, created_at) order
RECURSIVE OrderByDateCreated(_)
OrderByDateCreated(S) ==
    IF S = {} THEN <<>>
    ELSE LET first == CHOOSE e \in S : \A f \in S : f = e \/ OrderedBefore(e, f)
         IN  <<first>> \o OrderByDateCreated(S \ {first})

\* .order_by('-transaction_date', '-created_at').first()
LastEntry(S, ptype, pid) ==
    LET P == PartyEntries(S, ptype, pid)
    IN  IF P = {} THEN NoEntry
        ELSE CHOOSE e \in P : \A f \in P : f = e \/ OrderedBefore(f, e)

NoUniqueConstraint(S, ref, etype) == FALSE

\* UniqueConstraint unique_reference_entry
ViolatesUniqueReference(S, ref, etype) ==
    /\ ref.rtype # "none"
    /\ \E e \in S : e.rtype = ref.rtype /\ e.rid = ref.rid /\ e.etype = etype

(***************************************************************************)
(* LedgerService: entry creation                                           *)
(***************************************************************************)
\* _create_entry applied to the store S; nid is the id the store assigns next.
\* The insert is rejected by unique_reference_entry and the atomic block
\* rolls back: the store is returned as it was.
create_entry(S, nid, ptype, pid, etype, debit, credit, date, ref) ==
    LET last_entry == LastEntry(S, ptype, pid)
        previous_balance == IF last_entry = NoEntry THEN 0 ELSE last_entry.rb
        running_balance == previous_balance + debit - credit
        entry == [id |-> nid, ptype |-> ptype, pid |-> pid, etype |-> etype,
                  debit |-> debit, credit |-> credit, rb |-> running_balance,
                  rtype |-> ref.rtype, rid |-> ref.rid, date |-> date]
    IN  IF ViolatesUniqueReference(S, ref, etype)
        THEN [ok |-> FALSE, entries |-> S, nextId |-> nid, id |-> 0]
        ELSE [ok |-> TRUE, entries |-> S \cup {entry}, nextId |-> nid + 1, id |-> nid]

create_customer_invoice_entry(S, nid, customer, invoice) ==
    create_entry(S, nid, "customer", customer, "invoice",
                 invoice.total_amount, 0, invoice.date,
                 [rtype |-> "invoice", rid |-> invoice.id])

payment_entry_without_reference(S, nid, customer, amount, payment_date, ref) ==
    create_entry(S, nid, "customer", customer, "payment", 0, amount, payment_date, NoRef)

create_customer_payment_entry(S, nid, customer, amount, payment_date, ref) ==
    create_entry(S, nid, "customer", customer, "payment", 0, amount, payment_date, ref)

purchase_as_debit(S, nid, supplier, amount, purchase_date, ref) ==
    create_entry(S, nid, "supplier", supplier, "purchase", amount, 0, purchase_date, ref)

create_supplier_purchase_entry(S, nid, supplier, amount, purchase_date, ref) ==
    create_entry(S, nid, "supplier", supplier, "purchase", 0, amount, purchase_date, ref)

create_supplier_payment_entry(S, nid, supplier, amount, payment_date, ref) ==
    create_entry(S, nid, "supplier", supplier, "payment", amount, 0, payment_date, ref)

create_adjustment_entry(S, nid, ptype, pid, amount, is_debit, adjustment_date) ==
    LET debit == IF is_debit THEN amount ELSE 0
        credit == IF is_debit THEN 0 ELSE amount
    IN  create_entry(S, nid, ptype, pid, "adjustment", debit, credit,
                     adjustment_date, NoRef)

(***************************************************************************)
(* LedgerService: queries                                                  *)
(***************************************************************************)
get_customer_outstanding(S, customer_id) ==
    LET last_entry == LastEntry(S, "customer", customer_id)
    IN  IF last_entry = NoEntry THEN 0 ELSE last_entry.rb

get_supplier_payable(S, supplier_id) ==
    LET last_entry == LastEntry(S, "supplier", supplier_id)
    IN  IF last_entry = NoEntry THEN 0 ELSE last_entry.rb

MaxOf(X) == CHOOSE m \in X : \A x \in X : x <= m

Abs(x) == IF x < 0 THEN 0 - x ELSE x

\* .values('party_id').annotate(latest_date=Max('transaction_date'),
\*                              latest_created=Max('created_at'))
latest_entries(S, ptype) ==
    {[party_id |-> p,
      latest_date |-> MaxOf({e.date : e \in PartyEntries(S, ptype, p)}),
      latest_created |-> MaxOf({e.id : e \in PartyEntries(S, ptype, p)})] :
        p \in {e.pid : e \in {f \in S : f.ptype = ptype}}}

\* .filter(party_id, transaction_date=latest_date, created_at=latest_created).first()
last_entry_of(S, ptype, entry_info) ==
    LET M == {e \in PartyEntries(S, ptype, entry_info.party_id) :
                 e.date = entry_info.latest_date /\ e.id = entry_info.latest_created}
    IN  IF M = {} THEN NoEntry ELSE CHOOSE e \in M : TRUE

\* sorted(results, key=lambda x: x['balance'], reverse=True)
RECURSIVE SortedByBalance(_)
SortedByBalance(R) ==
    IF R = {} THEN <<>>
    ELSE LET top == CHOOSE r \in R : \A q \in R : q.balance <= r.balance
         IN  <<top>> \o SortedByBalance(R \ {top})

\* customers: the ids for which Customer.objects.get succeeds
get_all_outstanding_customers(S, customers) ==
    SortedByBalance(
        {[party_id |-> i.party_id, balance |-> last_entry_of(S, "customer", i).rb] :
            i \in {j \in latest_entries(S, "customer") :
                     /\ last_entry_of(S, "customer", j) # NoEntry
                     /\ last_entry_of(S, "customer", j).rb > 0
                     /\ j.party_id \in customers}})

get_all_payable_suppliers(S) ==
    SortedByBalance(
        {[party_id |-> i.party_id, balance |-> Abs(last_entry_of(S, "supplier", i).rb)] :
            i \in {j \in latest_entries(S, "supplier") :
                     /\ last_entry_of(S, "supplier", j) # NoEntry
                     /\ last_entry_of(S, "supplier", j).rb < 0}})

(***************************************************************************)
(* LedgerService: recalculation                                            *)
(***************************************************************************)
\* the loop of recalculate_party_balance over the ordered entries from
\* position i on: acc.balance is running_balance, acc.saved the entries as
\* they are after the loop, acc.writes the number of entry.save() calls
SavesAlways(entry, running_balance) == TRUE

\* if entry.running_balance != running_balance
NeedsSave(entry, running_balance) == entry.rb # running_balance

RECURSIVE RecalcLoop(_, _, _)
RecalcLoop(seq, i, acc) ==
    IF i > Len(seq) THEN acc
    ELSE LET entry == seq[i]
             running_balance == acc.balance + entry.debit - entry.credit
         IN  IF NeedsSave(entry, running_balance)
             THEN RecalcLoop(seq, i + 1,
                     [balance |-> running_balance,
                      saved |-> acc.saved \cup {[entry EXCEPT !.rb = running_balance]},
                      writes |-> acc.writes + 1])
             ELSE RecalcLoop(seq, i + 1,
                     [balance |-> running_balance,
                      saved |-> acc.saved \cup {entry},
                      writes |-> acc.writes])

recalculate_party_balance(S, ptype, pid) ==
    LET P == PartyEntries(S, ptype, pid)
        r == RecalcLoop(OrderByDateCreated(P), 1,
                        [balance |-> 0, saved |-> {}, writes |-> 0])
    IN  [entries |-> (S \ P) \cup r.saved, ret |-> r.balance, writes |-> r.writes]

\* a process with no transaction in flight
Idle ==
    [kind |-> "idle", pc |-> "idle", etype |-> "none", debit |-> 0, credit |-> 0,
     date |-> 0, ref |-> NoRef, target |-> 0, prev |-> 0, rows |-> <<>>, idx |-> 0,
     new |-> NoEntry, overlap |-> <<>>, pay |-> NoEntry, allocs |-> {}]

(***************************************************************************)
(* The service called operation by operation (one transaction each)        *)
(***************************************************************************)
\* lastOp: op names the operation and (ptype, pid) its party; ok is FALSE when
\* it raised; ret is what it returned (the id of the entry a creation made);
\* writes counts the entries a recalculation saved; again says that the
\* operation before it was the same operation on the same party, prevFailed
\* that the operation before it was rejected; proc is the process that ran it
\* and overlap lists the transactions that committed while it was in flight,
\* each with its kind and whether it was itself free of such overlap (0 and
\* <<>> when operations run one at a time); skipped counts the manual
\* allocation fields of a payment recording whose invoice lookup found nothing;
\* amount and is_debit are the amount and the is_debit flag the caller passed
\* (0 and FALSE for the operations that take none); recorded is the sum of
\* the amounts of a record-payment request and of the record-payment requests
\* for the same invoice that directly precede it
Op(op, ptype, pid, ok, ret, writes) ==
    [op |-> op, ptype |-> ptype, pid |-> pid, ok |-> ok, ret |-> ret,
     writes |-> writes, again |-> FALSE, prevFailed |-> FALSE, proc |-> 0,
     overlap |-> <<>>, skipped |-> 0, amount |-> 0, is_debit |-> FALSE,
     recorded |-> 0]

\* op recorded as the successor of lastOp
After(op) ==
    [op EXCEPT !.again = (lastOp.op = op.op /\ lastOp.ptype = op.ptype
                          /\ lastOp.pid = op.pid),
               !.prevFailed = ~lastOp.ok]

Created(name, ptype, pid, amount, is_debit, r) ==
    /\ entries' = r.entries
    /\ nextId' = r.nextId
    /\ lastOp' = After([Op(name, ptype, pid, r.ok, r.id, 0)
                          EXCEPT !.amount = amount, !.is_debit = is_debit])
    /\ UNCHANGED <<concVars, orchVars>>

CreateCustomerInvoiceEntry ==
    \E c \in CustomerIds, i \in InvoiceRefs, a \in Amounts, d \in Dates :
        /\ nextId <= MaxEntries
        /\ Created("invoice", "customer", c, a, FALSE,
                   create_customer_invoice_entry(entries, nextId, c,
                       [id |-> i, total_amount |-> a, date |-> d]))

CreateCustomerPaymentEntry ==
    \E c \in CustomerIds, a \in Amounts, d \in Dates,
       ref \in {NoRef} \cup {[rtype |-> "payment", rid |-> p] : p \in PaymentRefs} :
        /\ nextId <= MaxEntries
        /\ Created("payment", "customer", c, a, FALSE,
                   create_customer_payment_entry(entries, nextId, c, a, d, ref))

CreateSupplierPurchaseEntry ==
    \E s \in SupplierIds, a \in SupplierAmounts, d \in Dates :
        /\ nextId <= MaxEntries
        /\ Created("purchase", "supplier", s, a, FALSE,
                   create_supplier_purchase_entry(entries, nextId, s, a, d, NoRef))

CreateSupplierPaymentEntry ==
    \E s \in SupplierIds, a \in SupplierAmounts, d \in Dates :
        /\ nextId <= MaxEntries
        /\ Created("supplier_payment", "supplier", s, a, FALSE,
                   create_supplier_payment_entry(entries, nextId, s, a, d, NoRef))

CreateAdjustmentEntry ==
    \E ptype \in AdjPartyTypes, a \in AdjAmounts,
       is_debit \in BOOLEAN, d \in Dates :
        \E pid \in IF ptype = "customer" THEN CustomerIds ELSE SupplierIds :
            /\ nextId <= MaxEntries
            /\ Created("adjustment", ptype, pid, a, is_debit,
                       create_adjustment_entry(entries, nextId, ptype, pid, a, is_debit, d))

RecalculatePartyBalance ==
    \E ptype \in {"customer", "supplier"} :
        \E pid \in IF ptype = "customer" THEN CustomerIds ELSE SupplierIds :
            LET r == recalculate_party_balance(entries, ptype, pid)
            IN  /\ entries' = r.entries
                /\ nextId' = nextId
                /\ lastOp' = After(Op("recalc", ptype, pid, TRUE, r.ret, r.writes))
                /\ UNCHANGED <<concVars, orchVars>>

Init ==
    /\ entries = {}
    /\ nextId = 1
    /\ lastOp = Op("none", "none", 0, TRUE, 0, 0)
    /\ txn = [p \in Procs |-> Idle]
    /\ held = [p \in Procs |-> {}]
    /\ observed = {}
    /\ invoices = {}
    /\ payments = {}
    /\ allocations = {}

Next ==
    \/ CreateCustomerInvoiceEntry
    \/ CreateCustomerPaymentEntry
    \/ CreateSupplierPurchaseEntry
    \/ CreateSupplierPaymentEntry
    \/ CreateAdjustmentEntry
    \/ RecalculatePartyBalance

Spec == Init /\ [][Next]_vars

(***************************************************************************)
(* Concurrent transactions on one party's ledger.  select_for_update()     *)
(* locks the rows its query returns: the query picks the rows in the       *)
(* committed store as of the statement's start, each row is then locked    *)
(* (waiting while another transaction holds it) and read in its latest     *)
(* committed version.  Rows inserted by a transaction are invisible to the *)
(* others until it commits; locks are released at commit or rollback.      *)
(***************************************************************************)
ConcPtype == "customer"
ConcPid == 1

HeldByOther(p, id) == \E q \in Procs \ {p} : id \in held[q]

RowById(S, id) == CHOOSE e \in S : e.id = id

\* the rows of a query's result that still exist once their locks are
\* granted: a row that a concurrent transaction deleted is skipped
StillThere(S, rows) ==
    LET Exists(id) == \E e \in S : e.id = id IN SelectSeq(rows, Exists)

\* p's transaction of kind k commits: p is idle again and the transactions
\* in flight note the commit (the first OverlapCap of them)
NoteCommit(p, k) ==
    [q \in Procs |->
        IF q # p /\ txn[q].kind # "idle" /\ Len(txn[q].overlap) < OverlapCap
        THEN [txn[q] EXCEPT !.overlap =
                 Append(@, [kind |-> k, clean |-> txn[p].overlap = <<>>])]
        ELSE IF q = p THEN Idle ELSE txn[q]]

\* _create_entry, line 41-45: the SELECT ... FOR UPDATE picks the party's last row
CreateSelectTail(p) ==
    /\ txn[p].kind = "idle"
    /\ nextId <= MaxConcEntries
    /\ \E w \in {"invoice", "payment"}, a \in ConcAmounts, d \in ConcDates, i \in ConcInvoiceRefs :
          LET last_entry == LastEntry(entries, ConcPtype, ConcPid)
          IN  txn' = [txn EXCEPT ![p] =
                  [Idle EXCEPT !.kind = "create",
                               !.pc = IF last_entry = NoEntry THEN "insert" ELSE "lock",
                               !.etype = w,
                               !.debit = IF w = "invoice" THEN a ELSE 0,
                               !.credit = IF w = "invoice" THEN 0 ELSE a,
                               !.date = d,
                               !.ref = IF w = "invoice"
                                       THEN [rtype |-> "invoice", rid |-> i] ELSE NoRef,
                               !.target = last_entry.id]]
    /\ UNCHANGED <<entries, nextId, lastOp, held, observed, orchVars>>

\* the row lock on the tail is granted; line 48 reads its running_balance
CreateLockTail(p) ==
    /\ txn[p].kind = "create" /\ txn[p].pc = "lock"
    /\ ~HeldByOther(p, txn[p].target)
    /\ held' = [held EXCEPT ![p] = @ \cup {txn[p].target}]
    /\ txn' = [txn EXCEPT ![p].prev = IF StillThere(entries, <<txn[p].target>>) = <<>>
                                       THEN 0 ELSE RowById(entries, txn[p].target).rb,
                          ![p].pc = "insert"]
    /\ UNCHANGED <<entries, nextId, lastOp, observed, orchVars>>

\* line 59: LedgerEntry.objects.create; the unique index makes the insert wait
\* for an uncommitted row with the same key and fail on a committed one
CreateInsert(p) ==
    /\ txn[p].kind = "create" /\ txn[p].pc = "insert"
    /\ ~ \E q \in Procs \ {p} :
            /\ txn[q].pc = "commit"
            /\ ViolatesUniqueReference({txn[q].new}, txn[p].ref, txn[p].etype)
    /\ IF ViolatesUniqueReference(entries, txn[p].ref, txn[p].etype)
       THEN /\ txn' = [txn EXCEPT ![p] = Idle]
            /\ held' = [held EXCEPT ![p] = {}]
            /\ lastOp' = [Op(txn[p].etype, ConcPtype, ConcPid, FALSE, 0, 0)
                            EXCEPT !.proc = p, !.overlap = txn[p].overlap]
            /\ UNCHANGED <<entries, nextId, observed, orchVars>>
       ELSE /\ txn' = [txn EXCEPT ![p].pc = "commit",
                                  ![p].new =
                                     [id |-> nextId, ptype |-> ConcPtype, pid |-> ConcPid,
                                      etype |-> txn[p].etype, debit |-> txn[p].debit,
                                      credit |-> txn[p].credit,
                                      rb |-> txn[p].prev + txn[p].debit - txn[p].credit,
                                      rtype |-> txn[p].ref.rtype, rid |-> txn[p].ref.rid,
                                      date |-> txn[p].date]]
            /\ nextId' = nextId + 1
            /\ UNCHANGED <<entries, lastOp, held, observed, orchVars>>

\* the atomic block of _create_entry exits: commit
CreateCommit(p) ==
    /\ txn[p].kind = "create" /\ txn[p].pc = "commit"
    /\ entries' = entries \cup {txn[p].new}
    /\ observed' = observed \cup {<<txn[p].new.id, txn[p].target>>}
    /\ held' = [held EXCEPT ![p] = {}]
    /\ lastOp' = [Op(txn[p].etype, ConcPtype, ConcPid, TRUE, txn[p].new.id, 0)
                    EXCEPT !.proc = p, !.overlap = txn[p].overlap]
    /\ txn' = NoteCommit(p, "create")
    /\ UNCHANGED <<nextId, orchVars>>

\* recalculate_party_balance, line 355-359: the query picks the party's rows
RecalcSelect(p) ==
    /\ txn[p].kind = "idle"
    /\ LET seq == OrderByDateCreated(PartyEntries(entries, ConcPtype, ConcPid))
       IN  txn' = [txn EXCEPT ![p] =
               [Idle EXCEPT !.kind = "recalc",
                            !.pc = IF seq = <<>> THEN "write" ELSE "lock",
                            !.rows = [i \in 1..Len(seq) |-> seq[i].id],
                            !.idx = 1]]
    /\ UNCHANGED <<entries, nextId, lastOp, held, observed, orchVars>>

\* the rows are locked one after the other in the order of the query
RecalcLockNext(p) ==
    /\ txn[p].kind = "recalc" /\ txn[p].pc = "lock"
    /\ ~HeldByOther(p, txn[p].rows[txn[p].idx])
    /\ held' = [held EXCEPT ![p] = @ \cup {txn[p].rows[txn[p].idx]}]
    /\ txn' = [txn EXCEPT ![p].idx = @ + 1,
                          ![p].pc = IF txn[p].idx = Len(txn[p].rows) THEN "write" ELSE "lock"]
    /\ UNCHANGED <<entries, nextId, lastOp, observed, orchVars>>

\* line 361-368: the loop over the locked rows, then commit
RecalcWriteCommit(p) ==
    /\ txn[p].kind = "recalc" /\ txn[p].pc = "write"
    /\ LET rows == StillThere(entries, txn[p].rows)
           locked == {RowById(entries, rows[i]) : i \in 1..Len(rows)}
           r == RecalcLoop([i \in 1..Len(rows) |-> RowById(entries, rows[i])],
                           1, [balance |-> 0, saved |-> {}, writes |-> 0])
       IN  /\ entries' = (entries \ locked) \cup r.saved
           /\ lastOp' = [Op("recalc", ConcPtype, ConcPid, TRUE, r.balance, r.writes)
                           EXCEPT !.proc = p, !.overlap = txn[p].overlap]
    /\ held' = [held EXCEPT ![p] = {}]
    /\ txn' = NoteCommit(p, "recalc")
    /\ UNCHANGED <<nextId, observed, orchVars>>

NextConc ==
    \E p \in Procs :
        \/ CreateSelectTail(p)
        \/ CreateLockTail(p)
        \/ CreateInsert(p)
        \/ CreateCommit(p)
        \/ RecalcSelect(p)
        \/ RecalcLockNext(p)
        \/ RecalcWriteCommit(p)

SpecConc == Init /\ [][NextConc]_vars

(***************************************************************************)
(* Concurrent invoice edits and voids on the party's ledger: the ledger    *)
(* part of InvoiceUpdateView.form_valid.  existing_entry.save() and        *)
(* existing_entry.delete() take the row lock of that entry and hold it to  *)
(* the end of the request's transaction; recalculate_party_balance then    *)
(* locks the party's rows in (transaction_date, created_at) order.         *)
(***************************************************************************)
\* the party's invoice entries, as the filter of line 196-202 / 227-233 finds them
ConcInvoiceEntries ==
    {e \in PartyEntries(entries, ConcPtype, ConcPid) : e.rtype = "invoice"}

\* line 238-239 (amount edit) and line 214 (void): the UPDATE or DELETE of
\* the invoice's entry is granted the row lock
EditSave(p) ==
    /\ txn[p].kind = "idle"
    /\ \E e \in ConcInvoiceEntries, k \in {"edit", "void"}, a \in ConcAmounts :
         /\ ~HeldByOther(p, e.id)
         /\ k = "edit" => a # e.debit
         /\ k = "void" => a = e.debit
         /\ held' = [held EXCEPT ![p] = {e.id}]
         /\ txn' = [txn EXCEPT ![p] =
                [Idle EXCEPT !.kind = k, !.pc = "select", !.target = e.id,
                             !.new = IF k = "edit" THEN [e EXCEPT !.debit = a]
                                     ELSE NoEntry]]
    /\ UNCHANGED <<entries, nextId, lastOp, observed, orchVars>>

\* the party's rows as p's transaction sees them: the committed rows with
\* its own update or delete applied
OwnView(p) ==
    LET P == PartyEntries(entries, ConcPtype, ConcPid)
        rest == {e \in P : e.id # txn[p].target}
    IN  IF txn[p].kind = "edit" /\ \E e \in P : e.id = txn[p].target
        THEN rest \cup {txn[p].new} ELSE rest

\* line 242-246 / 217-221: the query of recalculate_party_balance picks the rows
EditSelect(p) ==
    /\ txn[p].kind \in {"edit", "void"} /\ txn[p].pc = "select"
    /\ LET seq == OrderByDateCreated(OwnView(p))
       IN  txn' = [txn EXCEPT ![p].pc = IF seq = <<>> THEN "write" ELSE "lock",
                              ![p].rows = [i \in 1..Len(seq) |-> seq[i].id],
                              ![p].idx = 1]
    /\ UNCHANGED <<entries, nextId, lastOp, held, observed, orchVars>>

\* the rows are locked one after the other in the order of the query
EditLockNext(p) ==
    /\ txn[p].kind \in {"edit", "void"} /\ txn[p].pc = "lock"
    /\ ~HeldByOther(p, txn[p].rows[txn[p].idx])
    /\ held' = [held EXCEPT ![p] = @ \cup {txn[p].rows[txn[p].idx]}]
    /\ txn' = [txn EXCEPT ![p].idx = @ + 1,
                          ![p].pc = IF txn[p].idx = Len(txn[p].rows) THEN "write" ELSE "lock"]
    /\ UNCHANGED <<entries, nextId, lastOp, observed, orchVars>>

\* the loop of recalculate_party_balance over the locked rows, then the
\* request's transaction commits
EditWriteCommit(p) ==
    /\ txn[p].kind \in {"edit", "void"} /\ txn[p].pc = "write"
    /\ LET view == OwnView(p)
           rows == StillThere(view, txn[p].rows)
           r == RecalcLoop([i \in 1..Len(rows) |-> RowById(view, rows[i])],
                           1, [balance |-> 0, saved |-> {}, writes |-> 0])
       IN  /\ entries' = {e \in entries : e.ptype # ConcPtype \/ e.pid # ConcPid}
                            \cup {e \in view : \A f \in r.saved : f.id # e.id}
                            \cup r.saved
           /\ lastOp' = [Op(txn[p].kind, ConcPtype, ConcPid, TRUE, txn[p].target, r.writes)
                           EXCEPT !.proc = p, !.overlap = txn[p].overlap]
    /\ held' = [held EXCEPT ![p] = {}]
    /\ txn' = NoteCommit(p, txn[p].kind)
    /\ UNCHANGED <<nextId, observed, orchVars>>

\* entry creations while the ledger holds fewer than MaxLockEntries entries
LockCreateSelectTail(p) == nextId <= MaxLockEntries /\ CreateSelectTail(p)

NextLocks ==
    \E p \in Procs :
        \/ LockCreateSelectTail(p)
        \/ CreateLockTail(p)
        \/ CreateInsert(p)
        \/ CreateCommit(p)
        \/ RecalcSelect(p)
        \/ RecalcLockNext(p)
        \/ RecalcWriteCommit(p)
        \/ EditSave(p)
        \/ EditSelect(p)
        \/ EditLockNext(p)
        \/ EditWriteCommit(p)

SpecLocks == Init /\ [][NextLocks]_vars

\* the steps that carry on a transaction that has started
Continue(p) ==
    \/ CreateLockTail(p)
    \/ CreateInsert(p)
    \/ CreateCommit(p)
    \/ RecalcLockNext(p)
    \/ RecalcWriteCommit(p)
    \/ EditSelect(p)
    \/ EditLockNext(p)
    \/ EditWriteCommit(p)

\* the database runs every statement of a transaction in flight, and grants
\* a released row lock to the transaction that waits for it before any later
\* request (the lock's wait queue): a step that is enabled again and again
\* is taken
SpecLocksFair == SpecLocks /\ \A p \in Procs : SF_vars(Continue(p))

(***************************************************************************)
(* Invoice and payment orchestration: the form_valid handlers of the       *)
(* invoice and payment views.  Each runs in one transaction.atomic block:  *)
(* an exception raised inside rolls everything back.                       *)
(***************************************************************************)
Unchanged(S, nid) == [ok |-> TRUE, entries |-> S, nextId |-> nid, id |-> 0]

\* LedgerEntry.objects.filter(party_type='customer', party_id=customer.id,
\*     reference_type__model='invoice', reference_id=invoice.id)
InvoiceEntries(S, customer, invoice_id) ==
    {e \in S : e.ptype = "customer" /\ e.pid = customer
               /\ e.rtype = "invoice" /\ e.rid = invoice_id}

\* the row the form saves, before the formset is looked at
NewInvoice(id, c, d, st) ==
    [id |-> id, customer |-> c, date |-> d, status |-> st, total_amount |-> 0,
     is_deleted |-> FALSE]

\* InvoiceCreateView.form_valid, line 85-118, for the saved invoice inv
invoice_create_ledger(S, nid, inv) ==
    IF inv.status \in {"sent", "paid"} /\ inv.total_amount > 0
       /\ InvoiceEntries(S, inv.customer, inv.id) = {}
    THEN LET r1 == create_customer_invoice_entry(S, nid, inv.customer, inv)
         IN  IF r1.ok /\ inv.status = "paid"
             THEN create_customer_payment_entry(r1.entries, r1.nextId, inv.customer,
                                                inv.total_amount, inv.date, NoRef)
             ELSE r1
    ELSE Unchanged(S, nid)

InvoiceCreateIn(B) ==
    \E c \in B.customers, d \in B.dates, st \in B.statuses, valid \in B.valid,
       t \in B.totals :
        LET id == Cardinality(invoices) + 1
            saved == NewInvoice(id, c, d, st)
            inv == [saved EXCEPT !.total_amount = t]
        IN  /\ Cardinality(invoices) < B.maxInvoices
            /\ IF ~valid
               THEN /\ invoices' = invoices \cup {saved}
                    /\ lastOp' = Op("invoice_create_invalid", "customer", c, TRUE, id, 0)
                    /\ UNCHANGED <<entries, nextId>>
               ELSE \E r \in {invoice_create_ledger(entries, nextId, inv)} :
                    /\ r.nextId <= B.maxEntries + 1
                    /\ lastOp' = Op("invoice_create", "customer", c, r.ok, id, 0)
                    /\ IF r.ok
                       THEN /\ invoices' = invoices \cup {inv}
                            /\ entries' = r.entries
                            /\ nextId' = r.nextId
                       ELSE UNCHANGED <<invoices, entries, nextId>>
            /\ UNCHANGED <<concVars, payments, allocations>>

InvoiceCreate == InvoiceCreateIn(OrchInputs)

void_whenever_cancelled(S, nid, old_status, inv) ==
    LET existing == InvoiceEntries(S, inv.customer, inv.id)
    IN  IF inv.status = "cancelled" /\ existing # {}
        THEN [ok |-> TRUE, nextId |-> nid, id |-> 0,
              entries |-> recalculate_party_balance(S \ existing,
                              "customer", inv.customer).entries]
        ELSE Unchanged(S, nid)

\* InvoiceUpdateView.form_valid, line 193-255: the cancelled and sent cases
invoice_update_sent_or_cancelled(S, nid, old_status, inv) ==
    LET existing == InvoiceEntries(S, inv.customer, inv.id)
        existing_entry == CHOOSE e \in existing : TRUE
    IN  IF old_status = "sent" /\ inv.status = "cancelled"
        THEN IF existing # {}
             THEN [ok |-> TRUE, nextId |-> nid, id |-> 0,
                   entries |-> recalculate_party_balance(S \ {existing_entry},
                                   "customer", inv.customer).entries]
             ELSE Unchanged(S, nid)
        ELSE IF inv.status = "sent"
        THEN IF existing # {}
             THEN IF existing_entry.debit # inv.total_amount
                  THEN [ok |-> TRUE, nextId |-> nid, id |-> 0,
                        entries |-> recalculate_party_balance(
                            (S \ {existing_entry})
                                \cup {[existing_entry EXCEPT !.debit = inv.total_amount]},
                            "customer", inv.customer).entries]
                  ELSE Unchanged(S, nid)
             ELSE IF inv.total_amount > 0
                  THEN create_customer_invoice_entry(S, nid, inv.customer, inv)
                  ELSE Unchanged(S, nid)
        ELSE Unchanged(S, nid)

\* InvoiceUpdateView.form_valid, line 257-285: the paid case
invoice_update_paid(S, nid, old_status, inv) ==
    IF inv.status = "paid"
    THEN LET r1 == IF InvoiceEntries(S, inv.customer, inv.id) = {} /\ inv.total_amount > 0
                   THEN create_customer_invoice_entry(S, nid, inv.customer, inv)
                   ELSE Unchanged(S, nid)
         IN  IF r1.ok /\ old_status # "paid"
             THEN create_customer_payment_entry(r1.entries, r1.nextId, inv.customer,
                                                inv.total_amount, inv.date, NoRef)
             ELSE r1
    ELSE Unchanged(S, nid)

\* InvoiceUpdateView.form_valid, line 191-285: the three cases in sequence
invoice_update_ledger(S, nid, old_status, inv) ==
    LET r1 == invoice_update_sent_or_cancelled(S, nid, old_status, inv)
    IN  IF r1.ok THEN invoice_update_paid(r1.entries, r1.nextId, old_status, inv)
        ELSE r1

\* the dates explored for the date field of an update request: the request
\* posts the date the invoice has
UpdateDates(old) == {old.date}

InvoiceUpdate ==
    \E old \in invoices : \E c \in OrchCustomers, d \in UpdateDates(old), st \in Statuses,
       valid \in BOOLEAN, t \in Totals :
        LET saved == [old EXCEPT !.customer = c, !.date = d, !.status = st]
            inv == [saved EXCEPT !.total_amount = t]
        IN  /\ ~old.is_deleted
            /\ old.status # "paid"
            /\ IF ~valid
               THEN /\ invoices' = (invoices \ {old}) \cup {saved}
                    /\ lastOp' = Op("invoice_update_invalid", "customer", c, TRUE, old.id, 0)
                    /\ UNCHANGED <<entries, nextId>>
               ELSE \E r \in {invoice_update_ledger(entries, nextId, old.status, inv)} :
                    /\ r.nextId <= MaxOrchEntries + 1
                    /\ lastOp' = Op("invoice_update", "customer", c, r.ok, old.id, 0)
                    /\ IF r.ok
                       THEN /\ invoices' = (invoices \ {old}) \cup {inv}
                            /\ entries' = r.entries
                            /\ nextId' = r.nextId
                       ELSE UNCHANGED <<invoices, entries, nextId>>
            /\ UNCHANGED <<concVars, payments, allocations>>

RECURSIVE SumAmounts(_)
SumAmounts(A) ==
    IF A = {} THEN 0
    ELSE LET a == CHOOSE x \in A : TRUE IN a.amount + SumAmounts(A \ {a})

\* invoice.payment_allocations.aggregate(total=Sum('amount'))['total'] or 0
PaidOn(A, invoice_id) == SumAmounts({a \in A : a.invoice = invoice_id})

\* payment.allocations.aggregate(total=Sum('amount'))['total'] or 0
AllocatedOf(A, payment_id) == SumAmounts({a \in A : a.payment = payment_id})

Min(a, b) == IF a <= b THEN a ELSE b

\* the choices of the form's invoice field: none (0), or an invoice of the
\* company that is not paid (PaymentForm.__init__; any customer's invoice)
SelectableInvoices == {0} \cup {i.id : i \in {j \in invoices : ~j.is_deleted /\ j.status # "paid"}}

\* the posted allocation_<id> fields: 0 stands for an absent or empty field
ManualInputs(n) == [1..n -> {0} \cup ManualAmounts]

\* a second posted field whose name yields the same invoice id as another
\* one (allocation_1 and allocation_01): the id it names, 0 when there is none
ManualRepeats(n) == 0..n

\* PaymentCreateView.form_valid, line 60-79: the invoice selected in the form
selected_allocation(I, A, payment, selected) ==
    IF selected = 0 THEN {}
    ELSE LET selected_invoice == CHOOSE i \in I : i.id = selected
             outstanding == selected_invoice.total_amount - PaidOn(A, selected)
         IN  IF outstanding > 0
             THEN {[payment |-> payment.id, invoice |-> selected,
                    amount |-> Min(payment.amount, outstanding)]}
             ELSE {}

\* PaymentCreateView.form_valid, line 82-110: the manual allocation_<id> inputs
manual_allocations(I, payment, selected, manual) ==
    {[payment |-> payment.id, invoice |-> k, amount |-> manual[k]] :
        k \in {j \in DOMAIN manual :
                 /\ manual[j] > 0
                 /\ j # selected
                 /\ \E i \in I : i.id = j /\ i.customer = payment.customer
                                 /\ ~i.is_deleted}}

AnyOrders(U) ==
    {q \in [1..Cardinality(U) -> U] : \A a, b \in DOMAIN q : a # b => q[a] # q[b]}

\* PaymentCreateView.form_valid, line 97-110: the manual fields whose
\* Invoice.objects.get raises DoesNotExist, which the handler passes over
unresolved_fields(I, payment, selected, manual) ==
    {k \in DOMAIN manual :
        /\ manual[k] > 0
        /\ k # selected
        /\ ~\E i \in I : i.id = k /\ i.customer = payment.customer /\ ~i.is_deleted}

\* the second create() for one (payment, invoice) pair violates
\* unique_payment_invoice_allocation and raises IntegrityError
duplicate_allocation(I, payment, selected, manual, repeat) ==
    /\ repeat # 0
    /\ \E a \in manual_allocations(I, payment, selected, manual) : a.invoice = repeat

\* the orders in which order_by('date') can return the rows of U
FifoOrders(U) ==
    {q \in [1..Cardinality(U) -> U] :
        /\ \A a, b \in DOMAIN q : a # b => q[a] # q[b]
        /\ \A a, b \in DOMAIN q : a < b => q[a].date <= q[b].date}

\* PaymentCreateView.form_valid, line 121-147: the loop over unpaid invoices
RECURSIVE FifoLoop(_, _, _, _, _)
FifoLoop(q, n, A, payment, remaining_payment) ==
    IF n > Len(q) \/ remaining_payment <= 0 THEN {}
    ELSE LET outstanding == q[n].total_amount - PaidOn(A, q[n].id)
             to_allocate == Min(remaining_payment, outstanding)
         IN  IF outstanding <= 0
             THEN FifoLoop(q, n + 1, A, payment, remaining_payment)
             ELSE {[payment |-> payment.id, invoice |-> q[n].id, amount |-> to_allocate]}
                  \cup FifoLoop(q, n + 1, A, payment, remaining_payment - to_allocate)

leave_statuses(I, A, made) == I

\* PaymentCreateView.form_valid, line 162-174: mark fully allocated invoices paid
mark_paid(I, A, made) ==
    {IF (\E a \in made : a.invoice = i.id) /\ PaidOn(A, i.id) >= i.total_amount
        /\ i.status # "paid"
     THEN [i EXCEPT !.status = "paid"] ELSE i : i \in I}

autocommit(ok, new, old) == new

\* transaction.atomic: what the block wrote is kept when it ends normally and
\* undone when it raises
atomic(ok, new, old) == IF ok THEN new ELSE old

companion_credit_on_save(S, nid, I) ==
    IF I = {} THEN Unchanged(S, nid)
    ELSE LET i == CHOOSE x \in I : TRUE
         IN  create_customer_payment_entry(S, nid, i.customer, i.total_amount,
                                           i.date, NoRef)

\* invoices/signals.py: no receiver is connected, so saving the invoices I
\* (line 174 of the payment view) writes nothing to the ledger
invoice_post_save(S, nid, I) == Unchanged(S, nid)

\* Invoice.objects.filter(customer=..., status__in=['sent', 'partial'])
unpaid_invoices(I, c) ==
    {i \in I : i.customer = c /\ ~i.is_deleted /\ i.status \in {"sent", "partial"}}

\* the ledger part of the recording, line 149-174; inserted is FALSE when an
\* allocation insert has raised before it
payment_ledger(S, nid, payment, inserted, newly_paid) ==
    LET r1 == IF inserted
              THEN create_customer_payment_entry(S, nid, payment.customer,
                       payment.amount, payment.date,
                       [rtype |-> "payment", rid |-> payment.id])
              ELSE [Unchanged(S, nid) EXCEPT !.ok = FALSE]
    IN  IF r1.ok THEN invoice_post_save(r1.entries, r1.nextId, newly_paid) ELSE r1

PaymentCreateIn(B) ==
    /\ Cardinality(payments) < B.maxPayments
    /\ nextId <= B.maxEntries
    /\ \E c \in B.customers : \E q \in FifoOrders(unpaid_invoices(invoices, c)) :
       \E amount \in B.amounts, d \in PayDates, selected \in SelectableInvoices,
          manual \in ManualInputs(B.maxInvoices), repeat \in ManualRepeats(B.maxInvoices) :
        /\ repeat # 0 => manual[repeat] > 0
        /\ LET payment == [id |-> Cardinality(payments) + 1, customer |-> c,
                           amount |-> amount, date |-> d]
               inserted == ~duplicate_allocation(invoices, payment, selected, manual, repeat)
           IN  \E chosen \in {selected_allocation(invoices, allocations, payment, selected)
                              \cup manual_allocations(invoices, payment, selected, manual)} :
               \E made \in {IF chosen # {} THEN chosen
                            ELSE FifoLoop(q, 1, allocations, payment, amount)} :
               \E marked \in {mark_paid(invoices, allocations \cup made, made)} :
               \E r \in {payment_ledger(entries, nextId, payment, inserted,
                                        marked \ invoices)} :
                 /\ lastOp' = [Op(IF chosen # {} THEN "payment_create"
                                  ELSE "payment_create_fifo",
                                  "customer", c, r.ok, payment.id, 0)
                                EXCEPT !.skipped = Cardinality(
                                    unresolved_fields(invoices, payment, selected, manual))]
                 /\ payments' = atomic(r.ok, payments \cup {payment}, payments)
                 /\ allocations' = atomic(r.ok, allocations \cup made, allocations)
                 /\ invoices' = atomic(r.ok, marked, invoices)
                 /\ entries' = atomic(r.ok, r.entries, entries)
                 /\ nextId' = atomic(r.ok, r.nextId, nextId)
    /\ UNCHANGED concVars

PaymentCreate == PaymentCreateIn(OrchInputs)

\* InvoiceDeleteView: dispatch refuses a paid invoice, post soft-deletes
InvoiceDelete ==
    \E old \in invoices :
        /\ ~old.is_deleted
        /\ old.status # "paid"
        /\ invoices' = (invoices \ {old}) \cup {[old EXCEPT !.is_deleted = TRUE]}
        /\ lastOp' = Op("invoice_delete", "customer", old.customer, TRUE, old.id, 0)
        /\ UNCHANGED <<entries, nextId, concVars, payments, allocations>>

\* the choices of RecordPaymentForm's invoice field
RecordableInvoices ==
    {i \in invoices : i.status \in {"sent", "overdue"} /\ ~i.is_deleted}

\* RecordPaymentView.form_valid, for a form that RecordPaymentForm.clean accepts
RecordPayment ==
    /\ nextId <= MaxOrchEntries
    /\ \E invoice \in RecordableInvoices, amount \in PayAmounts, d \in PayDates :
        /\ amount <= invoice.total_amount
        /\ \E r \in {create_customer_payment_entry(entries, nextId, invoice.customer,
                                                   amount, d, NoRef)} :
             /\ lastOp' = [Op("record_payment", "customer", invoice.customer, r.ok,
                              invoice.id, 0)
                             EXCEPT !.amount = amount,
                                    !.recorded = amount +
                                       IF lastOp.op = "record_payment" /\ lastOp.ok
                                          /\ lastOp.ret = invoice.id
                                       THEN lastOp.recorded ELSE 0]
             /\ entries' = atomic(r.ok, r.entries, entries)
             /\ nextId' = atomic(r.ok, r.nextId, nextId)
             /\ invoices' = atomic(r.ok,
                    IF amount >= invoice.total_amount
                    THEN (invoices \ {invoice}) \cup {[invoice EXCEPT !.status = "paid"]}
                    ELSE invoices,
                    invoices)
        /\ UNCHANGED <<concVars, payments, allocations>>

NextOrch ==
    \/ InvoiceCreate
    \/ InvoiceUpdate
    \/ PaymentCreate
    \/ InvoiceDelete
    \/ RecordPayment

SpecOrch == Init /\ [][NextOrch]_vars

(***************************************************************************)
(* Payment recording over several invoices: up to MaxFifoInvoices invoices *)
(* are created as draft or sent, then payments are recorded against them.  *)
(***************************************************************************)
FifoInvoiceCreate == InvoiceCreateIn(FifoInputs)

FifoPaymentCreate == PaymentCreateIn(FifoInputs)

NextFifo ==
    \/ FifoInvoiceCreate
    \/ FifoPaymentCreate

SpecFifo == Init /\ [][NextFifo]_vars

(***************************************************************************)
(* Concurrent payment recordings by FIFO allocation: the statements of     *)
(* PaymentCreateView.form_valid, each request in its own transaction.  A   *)
(* statement sees what has been committed when it starts, and the          *)
(* transaction's own writes.                                               *)
(***************************************************************************)
PayInputs ==
    [customers |-> {1}, dates |-> {1}, statuses |-> {"sent"}, valid |-> {TRUE},
     totals |-> FifoTotals, amounts |-> PayAmounts, maxInvoices |-> 1,
     maxPayments |-> MaxPayPayments, maxEntries |-> MaxPayEntries]

\* an invoice is created while no payment is being recorded
PayInvoiceCreate ==
    /\ \A p \in Procs : txn[p].kind = "idle"
    /\ InvoiceCreateIn(PayInputs)

\* the processes whose transaction is a payment recording
Recording == {q \in Procs : txn[q].kind = "payment"}

\* the Payment rows inserted by transactions that have not committed yet
InsertedPayments == {txn[q].pay : q \in {r \in Recording : txn[r].pc # "number"}}

\* Payment.save, line 94-115: PAY-<today>-<sequence>, the sequence being one
\* more than that of the last payment numbered today that the query sees
next_payment_number(P, today) ==
    LET seen == {x.number.seq : x \in {y \in P : y.number.day = today}}
    IN  [day |-> today, seq |-> IF seen = {} THEN 1 ELSE MaxOf(seen) + 1]

\* line 50-52: the payment is saved.  payment_number is unique: the insert
\* waits while an uncommitted row carries the same number.  today is the
\* system date of the request, which never goes back
PaySave(p) ==
    /\ txn[p].kind = "idle"
    /\ Cardinality(payments) + Cardinality(Recording) < MaxPayPayments
    /\ \E c \in PayInputs.customers, amount \in PayAmounts, d \in PayDates,
          today \in SystemDays :
         /\ \A x \in payments \cup {txn[q].pay : q \in Recording} : x.number.day <= today
         /\ LET number == next_payment_number(payments, today)
                payment == [id |-> Cardinality(payments) + Cardinality(Recording) + 1,
                            customer |-> c, amount |-> amount, date |-> d,
                            number |-> number]
            IN  txn' = [txn EXCEPT ![p] =
                    [Idle EXCEPT !.kind = "payment",
                                 !.pc = IF \E x \in InsertedPayments : x.number = number
                                        THEN "number" ELSE "fifo",
                                 !.pay = payment]]
    /\ UNCHANGED <<entries, nextId, lastOp, held, observed, orchVars>>

\* the transaction that held the same payment_number has committed: the
\* insert raises IntegrityError and the request's transaction rolls back
PayNumberChecked(p) ==
    /\ txn[p].kind = "payment" /\ txn[p].pc = "number"
    /\ \E y \in payments : y.number = txn[p].pay.number
    /\ txn' = [txn EXCEPT ![p] = Idle]
    /\ lastOp' = [Op("payment_create_fifo", "customer", txn[p].pay.customer,
                     FALSE, txn[p].pay.id, 0) EXCEPT !.proc = p]
    /\ UNCHANGED <<entries, nextId, held, observed, orchVars>>

\* line 114-147: no invoice selected and no manual amount, so the payment is
\* allocated to the customer's unpaid invoices, oldest first
PayFifo(p) ==
    /\ txn[p].kind = "payment" /\ txn[p].pc = "fifo"
    /\ \E q \in FifoOrders(unpaid_invoices(invoices, txn[p].pay.customer)) :
         txn' = [txn EXCEPT ![p].pc = "ledger",
                            ![p].allocs = FifoLoop(q, 1, allocations, txn[p].pay,
                                                   txn[p].pay.amount)]
    /\ UNCHANGED <<entries, nextId, lastOp, held, observed, orchVars>>

\* line 151-158: create_customer_payment_entry; the row lock on the
\* customer's last ledger entry is granted and the credit is inserted
PayLedger(p) ==
    /\ txn[p].kind = "payment" /\ txn[p].pc = "ledger"
    /\ LET last_entry == LastEntry(entries, "customer", txn[p].pay.customer)
           previous_balance == IF last_entry = NoEntry THEN 0 ELSE last_entry.rb
       IN  /\ last_entry # NoEntry => ~HeldByOther(p, last_entry.id)
           /\ held' = [held EXCEPT ![p] =
                         IF last_entry = NoEntry THEN @ ELSE @ \cup {last_entry.id}]
           /\ txn' = [txn EXCEPT ![p].pc = "status",
                         ![p].new =
                            [id |-> nextId, ptype |-> "customer",
                             pid |-> txn[p].pay.customer, etype |-> "payment",
                             debit |-> 0, credit |-> txn[p].pay.amount,
                             rb |-> previous_balance - txn[p].pay.amount,
                             rtype |-> "payment", rid |-> txn[p].pay.id,
                             date |-> txn[p].pay.date]]
    /\ nextId' = nextId + 1
    /\ UNCHANGED <<entries, lastOp, observed, orchVars>>

\* line 162-177: the invoices the payment has paid in full are marked paid,
\* and the atomic block ends: commit
PayStatusCommit(p) ==
    /\ txn[p].kind = "payment" /\ txn[p].pc = "status"
    /\ payments' = payments \cup {txn[p].pay}
    /\ allocations' = allocations \cup txn[p].allocs
    /\ invoices' = mark_paid(invoices, allocations \cup txn[p].allocs, txn[p].allocs)
    /\ entries' = entries \cup {txn[p].new}
    /\ held' = [held EXCEPT ![p] = {}]
    /\ lastOp' = [Op("payment_create_fifo", "customer", txn[p].pay.customer, TRUE,
                     txn[p].pay.id, 0)
                    EXCEPT !.proc = p, !.overlap = txn[p].overlap]
    /\ txn' = NoteCommit(p, "payment")
    /\ UNCHANGED <<nextId, observed>>

NextPay ==
    \/ PayInvoiceCreate
    \/ \E p \in Procs :
        \/ PaySave(p)
        \/ PayNumberChecked(p)
        \/ PayFifo(p)
        \/ PayLedger(p)
        \/ PayStatusCommit(p)

SpecPay == Init /\ [][NextPay]_vars

(***************************************************************************)
(* Properties                                                              *)
(***************************************************************************)
Of(ptype, pid) == {e \in entries : e.ptype = ptype /\ e.pid = pid}

PartyKeys == {<<e.ptype, e.pid>> : e \in entries}

\* a is earlier than b in (transaction_date, created_at) ascending order
Precedes(a, b) == a.date < b.date \/ (a.date = b.date /\ a.id < b.id)

RECURSIVE NetSum(_)
NetSum(S) ==
    IF S = {} THEN 0
    ELSE LET e == CHOOSE x \in S : TRUE
         IN  e.debit - e.credit + NetSum(S \ {e})

\* the entries of e's party up to and including e
UpTo(e) == {f \in Of(e.ptype, e.pid) : f = e \/ Precedes(f, e)}

\* the running balance of the entry just before e, 0 before the first
BalanceBefore(e) ==
    LET B == UpTo(e) \ {e}
    IN  IF B = {} THEN 0
        ELSE (CHOOSE f \in B : \A g \in B : g = f \/ Precedes(g, f)).rb

Recurrence(ptype, pid) ==
    \A e \in Of(ptype, pid) : e.rb = BalanceBefore(e) + e.debit - e.credit

\* C1: in every reachable state each party's entries, ordered by
\* (transaction_date, created_at), satisfy
\* running_balance[i] = running_balance[i-1] + debit[i] - credit[i], 0 before the first
C1_BalanceRecurrence ==
    \A k \in PartyKeys : Recurrence(k[1], k[2])

\* C3: get_customer_outstanding / get_supplier_payable return the sum of all
\* the party's debits minus the sum of all its credits, 0 without entries
C3_OutstandingIsNetSum ==
    /\ \A c \in CustomerIds : get_customer_outstanding(entries, c) = NetSum(Of("customer", c))
    /\ \A u \in SupplierIds : get_supplier_payable(entries, u) = NetSum(Of("supplier", u))

\* C4: every stored entry has debit >= 0, credit >= 0 and exactly one of them nonzero
C4_DebitXorCredit ==
    \A e \in entries :
        /\ e.debit >= 0
        /\ e.credit >= 0
        /\ (e.debit # 0) # (e.credit # 0)

\* the entries without their running balances
Facts(S) ==
    {[id |-> e.id, ptype |-> e.ptype, pid |-> e.pid, etype |-> e.etype,
      debit |-> e.debit, credit |-> e.credit, rtype |-> e.rtype, rid |-> e.rid,
      date |-> e.date] : e \in S}

\* the running balance of the party's last entry in (date, created) order
FinalBalance(ptype, pid) ==
    LET P == Of(ptype, pid)
    IN  IF P = {} THEN 0
        ELSE (CHOOSE e \in P : \A f \in P : f = e \/ Precedes(f, e)).rb

IsCreation(op) ==
    op \in {"invoice", "payment", "purchase", "supplier_payment", "adjustment"}

\* C5: no two entries share a (reference_type, reference_id, entry_type), and
\* a creation that is rejected for it leaves the store as it was
C5_ReferenceUniqueness ==
    /\ [](\A e, f \in entries :
            (e.rtype # "none" /\ e.rtype = f.rtype /\ e.rid = f.rid /\ e.etype = f.etype)
                => e = f)
    /\ [][(IsCreation(lastOp'.op) /\ ~lastOp'.ok)
            => (entries' = entries /\ nextId' = nextId)]_vars

\* a creation was rejected, and the next creation for the same party succeeded
C5_Witness ==
    /\ IsCreation(lastOp.op) /\ lastOp.ok /\ lastOp.prevFailed
    /\ \E e \in entries : e.id = lastOp.ret /\ e.ptype = "customer"

\* C8: after recalculate_party_balance every entry of the party carries the
\* cumulative sum of debit - credit up to it in (transaction_date, created_at)
\* order, the call returns the last of these balances (0 without entries) and
\* it changes no debit, credit, date or number of entries
C8_RecalculateRecomputes ==
    /\ [](lastOp.op = "recalc" =>
            /\ \A e \in Of(lastOp.ptype, lastOp.pid) : e.rb = NetSum(UpTo(e))
            /\ lastOp.ret = FinalBalance(lastOp.ptype, lastOp.pid))
    /\ [][lastOp'.op = "recalc" => Facts(entries') = Facts(entries)]_vars

\* a recalculation repaired balances of a party with entries out of date order
C8_Witness ==
    /\ lastOp.op = "recalc" /\ lastOp.writes > 0
    /\ \E e, f \in Of(lastOp.ptype, lastOp.pid) : e.id < f.id /\ f.date < e.date

\* C9: a recalculation that directly follows a recalculation of the same
\* party returns the same balance and saves no entry
C9_RecalculateIdempotent ==
    [][(lastOp.op = "recalc" /\ lastOp'.op = "recalc"
        /\ lastOp'.ptype = lastOp.ptype /\ lastOp'.pid = lastOp.pid)
            => (lastOp'.ret = lastOp.ret /\ lastOp'.writes = 0 /\ entries' = entries)]_vars

\* the same party was recalculated twice in a row, with entries out of date order
C9_Witness ==
    /\ lastOp.op = "recalc" /\ lastOp.again
    /\ \E e, f \in Of(lastOp.ptype, lastOp.pid) : e.id < f.id /\ f.date < e.date

Quiescent == \A p \in Procs : txn[p].kind = "idle"

\* C2: once the concurrent creations for a party have all committed, no two
\* of its entries were computed from the same tail, and the outstanding is
\* the sum of all debits minus the sum of all credits
C2_ConcurrentAppend ==
    Quiescent =>
        /\ \A a, b \in observed : a[2] = b[2] => a = b
        /\ get_customer_outstanding(entries, ConcPid) = NetSum(Of(ConcPtype, ConcPid))

\* C10: when a recalculation has run concurrently with a creation or with
\* another recalculation on the party, with no third transaction overlapping
\* either, and both have committed, the balance recurrence holds for every
\* entry of the party
C10_RecalcSerialized ==
    (/\ lastOp.ok
     /\ Len(lastOp.overlap) = 1
     /\ lastOp.overlap[1].clean
     /\ (lastOp.op = "recalc" \/ lastOp.overlap[1].kind = "recalc"))
      => Recurrence(ConcPtype, ConcPid)

\* C6: for every payment the sum of its allocations is at most the payment's
\* amount, after any sequence of payment recordings (selected invoice, manual
\* amounts, FIFO).
C6_AllocationBound ==
    \A p \in payments : AllocatedOf(allocations, p.id) <= p.amount

\* C7: for every invoice the allocations made to it by all payments sum to at
\* most the invoice's total_amount.
C7_InvoiceBound ==
    \A i \in invoices : PaidOn(allocations, i.id) <= i.total_amount

\* the entries that reference invoice id as its invoice entry, on any party
EntriesOfInvoice(S, id) ==
    {e \in S : e.rtype = "invoice" /\ e.rid = id /\ e.etype = "invoice"}

\* the step committed an invoice update request (formset valid or not)
UpdateCommitted ==
    lastOp'.op \in {"invoice_update", "invoice_update_invalid"} /\ lastOp'.ok

\* the step took invoice id from status a to status b
StatusStep(id, a, b) ==
    /\ \E i \in invoices : i.id = id /\ i.status = a
    /\ \E i \in invoices' : i.id = id /\ i.status = b

\* C11: when an update request takes a sent invoice to cancelled, its invoice
\* entry is deleted, no entry is created or changed otherwise, and the
\* customer's outstanding afterwards is the sum of debits minus credits of
\* the remaining entries
C11_CancelVoidsEntry ==
    [][(UpdateCommitted /\ StatusStep(lastOp'.ret, "sent", "cancelled"))
        => /\ EntriesOfInvoice(entries', lastOp'.ret) = {}
           /\ Facts(entries') = Facts(entries \ EntriesOfInvoice(entries, lastOp'.ret))
           /\ nextId' = nextId
           /\ get_customer_outstanding(entries', lastOp'.pid)
                = NetSum({e \in entries' : e.ptype = "customer" /\ e.pid = lastOp'.pid})]_vars

\* the step changed the total of invoice id, sent before and after
TotalEdit(id) ==
    \E i \in invoices, j \in invoices' :
        /\ i.id = id /\ j.id = id
        /\ i.status = "sent" /\ j.status = "sent"
        /\ i.total_amount # j.total_amount

TotalNow(id) == (CHOOSE j \in invoices' : j.id = id).total_amount

\* C12: when an update request changes the total of an invoice that stays
\* sent and its invoice entry exists, afterwards the entry's debit equals
\* invoice.total_amount and the balance recurrence holds for the invoice's
\* customer; when no invoice entry exists (and the new total is > 0) one is
\* created with that debit
C12_SentAmountEdit ==
    [][(UpdateCommitted /\ TotalEdit(lastOp'.ret))
        => IF EntriesOfInvoice(entries, lastOp'.ret) # {}
           THEN /\ EntriesOfInvoice(entries', lastOp'.ret) # {}
                /\ \A e \in EntriesOfInvoice(entries', lastOp'.ret) :
                       e.debit = TotalNow(lastOp'.ret)
                /\ Recurrence("customer", lastOp.pid)'
           ELSE TotalNow(lastOp'.ret) > 0
                => \E e \in EntriesOfInvoice(entries', lastOp'.ret) :
                       e.debit = TotalNow(lastOp'.ret)]_vars

\* the step stored invoice id as sent with a total > 0, and before the step
\* it was a draft or did not exist
BecameSent(id) ==
    /\ lastOp'.op \in {"invoice_create", "invoice_create_invalid",
                       "invoice_update", "invoice_update_invalid"}
    /\ lastOp'.ok /\ lastOp'.ret = id
    /\ \A i \in invoices : i.id = id => i.status = "draft"
    /\ \E j \in invoices' : j.id = id /\ j.status = "sent" /\ j.total_amount > 0

\* the step handled an update request for invoice id that left it sent with
\* the total it had, its invoice entry being there already
SavedSentAgain(id) ==
    /\ lastOp'.op \in {"invoice_update", "invoice_update_invalid"}
    /\ lastOp'.ret = id
    /\ \E i \in invoices, j \in invoices' :
         /\ i.id = id /\ j.id = id
         /\ i.status = "sent" /\ j.status = "sent"
         /\ i.total_amount = j.total_amount
    /\ EntriesOfInvoice(entries, id) # {}

\* C13: when an invoice with total > 0 goes from draft to sent there is
\* afterwards exactly one entry referencing it, a debit of the invoice total
\* on the invoice's customer; saving the sent invoice again with the same
\* total creates no entry and changes none
C13_DraftToSentOnce ==
    /\ [][BecameSent(lastOp'.ret)
            => /\ Cardinality(EntriesOfInvoice(entries', lastOp'.ret)) = 1
               /\ \A e \in EntriesOfInvoice(entries', lastOp'.ret) :
                    /\ e.ptype = "customer" /\ e.pid = lastOp'.pid
                    /\ e.debit = TotalNow(lastOp'.ret) /\ e.credit = 0]_vars
    /\ [][SavedSentAgain(lastOp'.ret) => (entries' = entries /\ nextId' = nextId)]_vars

\* the step of an invoice create or update request stored invoice id as
\* paid, and before the step it was not paid or did not exist
BecamePaid(id) ==
    /\ lastOp'.op \in {"invoice_create", "invoice_create_invalid",
                       "invoice_update", "invoice_update_invalid"}
    /\ lastOp'.ok /\ lastOp'.ret = id
    /\ \A i \in invoices : i.id = id => i.status # "paid"
    /\ \E j \in invoices' : j.id = id /\ j.status = "paid"

\* the ids of the customer credits that carry no reference
Companions(S) == {e.id : e \in {f \in S : f.etype = "payment" /\ f.rtype = "none"}}

\* C14: when the invoice create or update flow makes an invoice with total
\* > 0 paid, an invoice entry referencing it exists afterwards and the step
\* creates exactly one unreferenced customer credit of the invoice total;
\* there are never more such credits than invoices made paid
C14_PaidTransition ==
    /\ [][(BecamePaid(lastOp'.ret) /\ TotalNow(lastOp'.ret) > 0)
            => /\ EntriesOfInvoice(entries', lastOp'.ret) # {}
               /\ Cardinality(Companions(entries') \ Companions(entries)) = 1
               /\ \A e \in entries' :
                    e.id \in Companions(entries') \ Companions(entries)
                        => /\ e.ptype = "customer" /\ e.pid = lastOp'.pid
                           /\ e.credit = TotalNow(lastOp'.ret) /\ e.debit = 0]_vars
    /\ [](Cardinality(Companions(entries))
            <= Cardinality({i \in invoices : i.status = "paid"}))

\* the step committed a payment recording
PaymentRecorded ==
    lastOp'.op \in {"payment_create", "payment_create_fifo"} /\ lastOp'.ok

\* C15: a committed payment recording adds exactly one ledger entry: a
\* customer entry of type payment on the payment's customer, with credit =
\* the payment amount, debit 0 and referencing the payment; it changes no
\* other entry
C15_OnePaymentEntry ==
    [][PaymentRecorded
        => \E p \in payments' \ payments :
             /\ p.id = lastOp'.ret
             /\ entries \subseteq entries'
             /\ Cardinality(entries' \ entries) = 1
             /\ \A e \in entries' \ entries :
                  /\ e.ptype = "customer" /\ e.pid = p.customer
                  /\ e.etype = "payment"
                  /\ e.credit = p.amount /\ e.debit = 0
                  /\ e.rtype = "payment" /\ e.rid = p.id]_vars

\* a payment was recorded that is only partly allocated, to an invoice that
\* it does not pay in full
C15_Witness ==
    /\ lastOp.op = "payment_create" /\ lastOp.ok
    /\ \E p \in payments :
         /\ p.id = lastOp.ret
         /\ AllocatedOf(allocations, p.id) > 0
         /\ AllocatedOf(allocations, p.id) < p.amount
    /\ \E e \in entries : e.rtype = "payment" /\ e.rid = lastOp.ret

\* the customer's open invoices before the step
OpenInvoices(c) ==
    {i \in invoices : i.customer = c /\ ~i.is_deleted /\ i.status = "sent"}

\* what is still owed on invoice i before the step, 0 when it is fully allocated
Owed(i) ==
    LET o == i.total_amount - PaidOn(allocations, i.id) IN IF o > 0 THEN o ELSE 0

RECURSIVE TotalOwed(_)
TotalOwed(I) ==
    IF I = {} THEN 0
    ELSE LET i == CHOOSE x \in I : TRUE IN Owed(i) + TotalOwed(I \ {i})

\* C16: a payment recorded without an allocation from a selected invoice or
\* manual amounts is allocated over the customer's sent invoices oldest
\* first: every allocation goes to an open invoice that still owes, is at
\* most what it owes, an invoice gets one only when every older open invoice
\* got all it owed, and the allocations sum to
\* min(payment amount, total owed on the open invoices)
C16_FifoAllocation ==
    [][(lastOp'.op = "payment_create_fifo" /\ lastOp'.ok)
        => \E p \in payments' \ payments :
             LET made == allocations' \ allocations
                 open == OpenInvoices(p.customer)
             IN  /\ allocations \subseteq allocations'
                 /\ \A a \in made :
                      /\ a.payment = p.id
                      /\ \E i \in open :
                           /\ i.id = a.invoice
                           /\ a.amount > 0 /\ a.amount <= Owed(i)
                           /\ \A j \in open :
                                (j.date < i.date /\ Owed(j) > 0)
                                  => \E b \in made : b.invoice = j.id /\ b.amount = Owed(j)
                 /\ \A a, b \in made : a.invoice = b.invoice => a = b
                 /\ SumAmounts(made) = Min(p.amount, TotalOwed(open))]_vars

\* a payment was spread over two invoices of different dates: the older one
\* got all it owed and the newer one only a part of what it owed
C16_Witness ==
    /\ lastOp.op = "payment_create_fifo" /\ lastOp.ok
    /\ \E a, b \in allocations, i, j \in invoices :
         /\ a.payment = lastOp.ret /\ b.payment = lastOp.ret
         /\ i.id = a.invoice /\ j.id = b.invoice
         /\ i.date < j.date
         /\ PaidOn(allocations, i.id) = i.total_amount
         /\ PaidOn(allocations, j.id) < j.total_amount

\* C17: after a committed payment recording, every invoice that got an
\* allocation from it is paid when its allocations from all payments sum to
\* at least its total_amount, and has the status it had otherwise
C17_StatusAfterPayment ==
    [][PaymentRecorded
        => \A i \in invoices :
             (\E a \in allocations' \ allocations : a.invoice = i.id)
               => \E j \in invoices' :
                    /\ j.id = i.id
                    /\ IF PaidOn(allocations', i.id) >= i.total_amount
                       THEN j.status = "paid"
                       ELSE j.status = i.status]_vars

\* the recorded payment completed an invoice that an earlier payment had
\* paid in part, and left another invoice partly paid and still sent
C17_Witness ==
    /\ lastOp.op \in {"payment_create", "payment_create_fifo"} /\ lastOp.ok
    /\ \E a, b, c \in allocations, i, j \in invoices :
         /\ a.payment = lastOp.ret /\ b.payment # lastOp.ret /\ c.payment = lastOp.ret
         /\ a.invoice = i.id /\ b.invoice = i.id /\ c.invoice = j.id
         /\ i.status = "paid" /\ PaidOn(allocations, i.id) = i.total_amount
         /\ j.status = "sent" /\ PaidOn(allocations, j.id) < j.total_amount

\* the step of a payment recording took invoice id to paid
PaidByPayment(id) ==
    /\ PaymentRecorded
    /\ \E i \in invoices : i.id = id /\ i.status # "paid"
    /\ \E j \in invoices' : j.id = id /\ j.status = "paid"

\* C18, as stated: when a payment recording makes an invoice paid, the step
\* creates, besides the payment's own entry, an unreferenced customer credit
\* of the invoice total
C18_CompanionOnPayment ==
    [][\A i \in invoices :
         PaidByPayment(i.id)
           => \E e \in entries' :
                /\ e.id \in Companions(entries') \ Companions(entries)
                /\ e.ptype = "customer" /\ e.pid = i.customer
                /\ e.credit = i.total_amount]_vars

\* C18, amended: when a payment recording makes an invoice paid, only the
\* status of the invoice changes: the step creates no unreferenced credit,
\* its only new ledger entry is the one that references the payment
C18_NoCompanionOnPayment ==
    [][(\E i \in invoices : PaidByPayment(i.id))
         => /\ Companions(entries') = Companions(entries)
            /\ entries \subseteq entries'
            /\ \A e \in entries' \ entries : e.rtype = "payment" /\ e.rid = lastOp'.ret
            /\ Cardinality(entries' \ entries) = 1]_vars

\* a payment paid a sent invoice in full: the invoice is paid, its debit
\* entry and the payment's credit are in the ledger, and no unreferenced
\* credit is
C18_Witness ==
    /\ lastOp.op \in {"payment_create", "payment_create_fifo"} /\ lastOp.ok
    /\ \E i \in invoices, a \in allocations :
         /\ a.payment = lastOp.ret /\ a.invoice = i.id /\ a.amount = i.total_amount
         /\ i.status = "paid"
         /\ EntriesOfInvoice(entries, i.id) # {}
    /\ \E e \in entries : e.rtype = "payment" /\ e.rid = lastOp.ret
    /\ Companions(entries) = {}

\* C19: a payment recording in which a step fails (an allocation insert or
\* the ledger entry creation) persists nothing: no payment, no allocation, no
\* ledger entry, no invoice status change
C19_PaymentAllOrNothing ==
    [][(lastOp'.op \in {"payment_create", "payment_create_fifo"} /\ ~lastOp'.ok)
        => /\ payments' = payments
           /\ allocations' = allocations
           /\ entries' = entries /\ nextId' = nextId
           /\ invoices' = invoices]_vars

\* a recording failed on a second allocation for the same invoice, for a
\* customer with a sent invoice, and left no payment behind
C19_Witness ==
    /\ lastOp.op = "payment_create" /\ ~lastOp.ok
    /\ \E i \in invoices : i.customer = lastOp.pid /\ i.status = "sent"
    /\ \A p \in payments : p.id # lastOp.ret

\* C20: a payment recording with a manual allocation field that names an
\* invoice which cannot be resolved (no such invoice, or an invoice of
\* another customer) fails and persists nothing
C20_UnresolvedInvoiceAborts ==
    [][(lastOp'.op \in {"payment_create", "payment_create_fifo"} /\ lastOp'.skipped > 0)
        => /\ ~lastOp'.ok
           /\ payments' = payments
           /\ allocations' = allocations
           /\ entries' = entries /\ nextId' = nextId
           /\ invoices' = invoices]_vars

\* the status changes the state machine of section 3 allows
AllowedStatusSteps ==
    {<<"draft", "sent">>, <<"sent", "paid">>, <<"sent", "cancelled">>}

\* the entries that reference invoice id, of either type and on any party
ReferencingInvoice(S, id) == {e \in S : e.rtype = "invoice" /\ e.rid = id}

\* C21: the status of an invoice changes only along draft -> sent, sent ->
\* paid and sent -> cancelled; once an invoice is paid or cancelled no step of
\* the invoice update, invoice delete or payment recording flows changes its
\* status or creates, changes or deletes an entry that references it
C21_StatusMachine ==
    [][\A i \in invoices : \A j \in invoices' :
          j.id = i.id
            => /\ i.status # j.status => <<i.status, j.status>> \in AllowedStatusSteps
               /\ i.status \in {"paid", "cancelled"}
                    => /\ j.status = i.status
                       /\ ReferencingInvoice(entries', i.id)
                            = ReferencingInvoice(entries, i.id)]_vars

Range(q) == {q[k] : k \in DOMAIN q}

Descending(q) == \A a, b \in DOMAIN q : a < b => q[a].balance >= q[b].balance

\* C22: in every reachable state get_all_outstanding_customers lists exactly
\* the customers whose get_customer_outstanding is > 0, with that balance,
\* and get_all_payable_suppliers lists exactly the suppliers whose
\* get_supplier_payable is < 0, with its absolute value; both lists are
\* sorted descending by the reported amount
C22_ListQueriesAgree ==
    /\ Range(get_all_outstanding_customers(entries, CustomerIds))
         = {[party_id |-> c, balance |-> get_customer_outstanding(entries, c)] :
              c \in {d \in CustomerIds : get_customer_outstanding(entries, d) > 0}}
    /\ Range(get_all_payable_suppliers(entries))
         = {[party_id |-> c, balance |-> Abs(get_supplier_payable(entries, c))] :
              c \in {d \in SupplierIds : get_supplier_payable(entries, d) < 0}}
    /\ Descending(get_all_outstanding_customers(entries, CustomerIds))
    /\ Descending(get_all_payable_suppliers(entries))

\* C23: every allocation links a payment and an invoice of the same customer,
\* whichever path created it (selected invoice, manual amount or FIFO)
C23_AllocationSameCustomer ==
    \A a \in allocations :
        \A p \in payments, i \in invoices :
            (p.id = a.payment /\ i.id = a.invoice) => p.customer = i.customer

\* the running balance of lastOp''s party before the step
PreviousBalance ==
    LET last_entry == LastEntry(entries, lastOp'.ptype, lastOp'.pid)
    IN  IF last_entry = NoEntry THEN 0 ELSE last_entry.rb

\* the step added exactly one entry, on lastOp''s party, with the given two
\* sides and the previous running balance plus debit minus credit
Wrote(ptype, debit, credit) ==
    /\ entries \subseteq entries'
    /\ Cardinality(entries' \ entries) = 1
    /\ \A e \in entries' \ entries :
         /\ e.id = lastOp'.ret
         /\ e.ptype = ptype /\ e.pid = lastOp'.pid
         /\ e.debit = debit /\ e.credit = credit
         /\ e.rb = PreviousBalance + debit - credit

\* C24: each creation wrapper writes a fixed polarity with the other side 0:
\* customer invoice a debit on the customer, customer payment a credit on the
\* customer, supplier purchase a credit on the supplier, supplier payment a
\* debit on the supplier, adjustment a debit when is_debit and a credit
\* otherwise; the new running balance is the previous one plus the amount for
\* the debit wrappers and minus the amount for the credit wrappers
C24_WrapperPolarity ==
    [][(IsCreation(lastOp'.op) /\ lastOp'.ok)
        => LET a == lastOp'.amount
           IN  /\ lastOp'.op = "invoice" => Wrote("customer", a, 0)
               /\ lastOp'.op = "payment" => Wrote("customer", 0, a)
               /\ lastOp'.op = "purchase" => Wrote("supplier", 0, a)
               /\ lastOp'.op = "supplier_payment" => Wrote("supplier", a, 0)
               /\ lastOp'.op = "adjustment"
                    => IF lastOp'.is_debit THEN Wrote(lastOp'.ptype, a, 0)
                       ELSE Wrote(lastOp'.ptype, 0, a)]_vars

\* a supplier purchase was recorded after a supplier payment: its entry is a
\* credit whose running balance differs from the amount alone
C24_Witness ==
    /\ lastOp.op = "purchase" /\ lastOp.ok
    /\ \E e \in entries :
         /\ e.id = lastOp.ret /\ e.credit = lastOp.amount /\ e.credit > 0
         /\ e.rb # 0 - e.credit

\* the entries that exist before the step and not after it
DeletedEntries == {e \in entries : \A f \in entries' : f.id # e.id}

\* every entry that exists before the step exists after it with the debit
\* and the credit it had
FrameKept ==
    \A e \in entries :
        \E f \in entries' : f.id = e.id /\ f.debit = e.debit /\ f.credit = e.credit

\* the step handled an update request for an invoice that was a draft and
\* stays one
DraftEdit ==
    /\ lastOp'.op \in {"invoice_update", "invoice_update_invalid"}
    /\ StatusStep(lastOp'.ret, "draft", "draft")

C26_InvoiceEntryMatchesStatus ==
    \A i \in invoices :
        /\ (i.status \in {"sent", "paid"} /\ i.total_amount > 0)
             => /\ Cardinality(EntriesOfInvoice(entries, i.id)) = 1
                /\ \A e \in EntriesOfInvoice(entries, i.id) :
                     /\ e.ptype = "customer" /\ e.pid = i.customer
                     /\ e.debit = i.total_amount
        /\ i.status \in {"draft", "cancelled"}
             => EntriesOfInvoice(entries, i.id) = {}

\* the row whose lock process p is waiting for or about to request, 0 when
\* it requests none
WantedRow(p) ==
    IF txn[p].pc = "lock"
    THEN IF txn[p].kind = "create" THEN txn[p].target ELSE txn[p].rows[txn[p].idx]
    ELSE 0

\* p waits for a row lock that q holds
WaitsFor(p, q) == WantedRow(p) # 0 /\ WantedRow(p) \in held[q]

\* C27: concurrent entry creations, recalculations and invoice amount edits
\* or voids on one party never deadlock: in no reachable state do two
\* operations each wait for a row lock the other holds, and under fair
\* scheduling every started operation eventually commits (or is rejected)
C27_NoDeadlock ==
    /\ [](\A p, q \in Procs : p # q => ~(WaitsFor(p, q) /\ WaitsFor(q, p)))
    /\ \A p \in Procs : (txn[p].kind # "idle") ~> (txn[p].kind = "idle")

\* C28: when an invoice becomes paid through the invoice create or update
\* flow, its invoice debit entry and the companion credit created for it
\* carry the same amount, the invoice's current total_amount, also when the
\* total is changed in the edit that marks a sent invoice paid
C28_PaidAmountsAgree ==
    [][BecamePaid(lastOp'.ret)
        => /\ \A e \in EntriesOfInvoice(entries', lastOp'.ret) :
                e.debit = TotalNow(lastOp'.ret)
           /\ \A e \in entries' :
                e.id \in Companions(entries') \ Companions(entries)
                    => e.credit = TotalNow(lastOp'.ret)]_vars

\* C29: when two payments of one customer are recorded concurrently, both by
\* FIFO allocation, then after both have committed the allocations of every
\* invoice sum to at most its total_amount
C29_ConcurrentFifoBound ==
    (lastOp.op = "payment_create_fifo" /\ lastOp.ok /\ Recording = {})
        => \A i \in invoices : PaidOn(allocations, i.id) <= i.total_amount

\* C30: through the record-payment flow each recorded payment adds exactly
\* one unreferenced customer credit entry for its amount, and the invoice is
\* paid as soon as the payments recorded against it sum to at least its
\* total_amount, also when several partial payments reach the total
C30_RecordPayment ==
    [][(lastOp'.op = "record_payment" /\ lastOp'.ok)
        => /\ entries \subseteq entries'
           /\ Cardinality(entries' \ entries) = 1
           /\ \A e \in entries' \ entries :
                /\ e.ptype = "customer" /\ e.pid = lastOp'.pid
                /\ e.etype = "payment" /\ e.rtype = "none"
                /\ e.credit = lastOp'.amount /\ e.debit = 0
           /\ lastOp'.recorded >= TotalNow(lastOp'.ret)
                => \E i \in invoices' : i.id = lastOp'.ret /\ i.status = "paid"]_vars

====
